---- MODULE Spec2Model ----
(***************************************************************************)
(* Ray-primitive intersection layer of the path tracer                     *)
(* (src/src/intersections.h): the analytic box and sphere intersectors,    *)
(* the two implicit fields, the coarse-to-fine marching root finder and    *)
(* the implicit-surface wrappers, as one state machine.  A call is         *)
(* started from the idle state with its arguments drawn from small sets    *)
(* and then runs statement by statement to its return.                     *)
(*                                                                         *)
(* Numbers.  A float is a pair <<n, d>>: d > 0 is the reduced fraction     *)
(* n/d, <<1,0>> and <<-1,0>> are +inf and -inf, <<0,0>> is NaN, and        *)
(* <<1,-1>>, <<-1,-1>> are the finite sentinels 1e38f and -1e38f, larger   *)
(* in magnitude than every other finite value of the model.  Arithmetic    *)
(* is exact: float rounding is not modelled, and zero carries no sign.     *)
(* The marcher works on a lattice: its parameter t is counted in steps of  *)
(* SMALLSTEPSIZE and object-space positions in steps of BIGSTEPSIZE.       *)
(***************************************************************************)
EXTENDS Integers, Sequences, FiniteSets, TLC

VARIABLES
    pc,                 \* position of the running call
    kind,               \* which intersector was called
    geom, r,            \* the arguments Geom and Ray
    in0,                \* the output parameters as the caller passed them
    intersectionPoint, normal, outside,   \* the output parameters
    ret,                \* the value the intersector returned
    q,                  \* the ray in object space (q / rt / pt, dir)
    tmin, tmax, tmin_n, tmax_n, xyz,      \* locals of boxIntersectionTest
    cam, ray,           \* arguments of csgNRaytrace, on the lattice
    t, step, i, j, p, distance,           \* locals of csgNRaytrace
    tRet,               \* local t of csgNIntersectionTest: the marcher's result
    exit,               \* which return statement of the marcher ran
    nCoarse, nFine      \* field evaluations made by each loop so far

vars == <<pc, kind, geom, r, in0, intersectionPoint, normal, outside, ret, q,
          tmin, tmax, tmin_n, tmax_n, xyz, cam, ray, t, step, i, j, p,
          distance, tRet, exit, nCoarse, nFine>>

-----------------------------------------------------------------------------
(* Bounds of the argument sets.                                            *)

\* world-space x of an implicit-surface ray origin: k/10, k in -MaxCam..MaxCam
MaxCam == 2
\* world-space x of a box or sphere ray origin: k/2, k in -MaxCoord..MaxCoord
MaxCoord == 2

-----------------------------------------------------------------------------
(* Exact float arithmetic.                                                 *)

RECURSIVE GCD(_, _)
GCD(a, b) == IF b = 0 THEN a ELSE GCD(b, a % b)

Abs(n) == IF n < 0 THEN -n ELSE n
Sgn(n) == IF n > 0 THEN 1 ELSE IF n < 0 THEN -1 ELSE 0

NaN == <<0, 0>>
PosInf == <<1, 0>>
NegInf == <<-1, 0>>
Zero == <<0, 1>>
One == <<1, 1>>

\* n/d as a reduced fraction, d # 0
Frac(n, d) ==
    LET g == GCD(Abs(n), Abs(d))
    IN  <<Sgn(d) * (n \div g), Abs(d) \div g>>

IsFinite(a) == a[2] > 0
\* order of the classes: -inf < -1e38 < fractions < 1e38 < +inf
Rank(a) == IF a[2] > 0 THEN 0 ELSE IF a[2] = 0 THEN 2 * Sgn(a[1]) ELSE Sgn(a[1])

\* the comparisons of the source; every comparison with NaN is false
Lt(a, b) ==
    /\ a # NaN
    /\ b # NaN
    /\ \/ Rank(a) < Rank(b)
       \/ IsFinite(a) /\ IsFinite(b) /\ a[1] * b[2] < b[1] * a[2]
Gt(a, b) == Lt(b, a)
Le(a, b) == a # NaN /\ b # NaN /\ ~Lt(b, a)
Ge(a, b) == Le(b, a)

FNeg(a) == <<-a[1], a[2]>>

FAdd(a, b) ==
    IF a = NaN \/ b = NaN THEN NaN
    ELSE IF IsFinite(a) /\ IsFinite(b)
    THEN LET l == (a[2] \div GCD(a[2], b[2])) * b[2]
         IN  Frac(a[1] * (l \div a[2]) + b[1] * (l \div b[2]), l)
    ELSE IF IsFinite(b) THEN a
    ELSE IF IsFinite(a) THEN b
    ELSE IF Sgn(a[1]) = Sgn(b[1]) THEN (IF a[2] = 0 THEN a ELSE b)
    ELSE IF a[2] = 0 /\ b[2] = 0 THEN NaN
    ELSE IF a[2] = 0 THEN a
    ELSE IF b[2] = 0 THEN b
    ELSE Zero

FSub(a, b) == FAdd(a, FNeg(b))

FMul(a, b) ==
    IF a = NaN \/ b = NaN THEN NaN
    ELSE IF IsFinite(a) /\ IsFinite(b) THEN Frac(a[1] * b[1], a[2] * b[2])
    ELSE IF Sgn(a[1]) * Sgn(b[1]) = 0
    THEN (IF a[2] = 0 \/ b[2] = 0 THEN NaN ELSE Zero)
    ELSE <<Sgn(a[1]) * Sgn(b[1]), 0>>

FDiv(a, b) ==
    IF a = NaN \/ b = NaN THEN NaN
    ELSE IF b = Zero
    THEN (IF Sgn(a[1]) = 0 THEN NaN ELSE <<Sgn(a[1]), 0>>)
    ELSE IF ~IsFinite(b) THEN (IF IsFinite(a) THEN Zero ELSE NaN)
    ELSE IF ~IsFinite(a) THEN <<Sgn(a[1]) * Sgn(b[1]), a[2]>>
    ELSE Frac(a[1] * b[2], a[2] * b[1])

\* glm::min and glm::max: (y < x) ? y : x and (x < y) ? y : x
FMin(x, y) == IF Lt(y, x) THEN y ELSE x
FMax(x, y) == IF Lt(x, y) THEN y ELSE x

\* largest k in lo..hi with k * k <= n, given lo * lo <= n
RECURSIVE SqrtSearch(_, _, _)
SqrtSearch(n, lo, hi) ==
    IF lo >= hi THEN lo
    ELSE LET mid == (lo + hi + 1) \div 2
         IN  IF mid <= n \div mid THEN SqrtSearch(n, mid, hi)
             ELSE SqrtSearch(n, lo, mid - 1)

ISqrt(n) == SqrtSearch(n, 0, IF n < 46340 THEN n ELSE 46340)

\* sqrt: exact on fractions of squares, rounded down to a multiple of 1/d
\* elsewhere
FSqrt(a) ==
    IF a = NaN \/ Lt(a, Zero) THEN NaN
    ELSE IF ~IsFinite(a) THEN a
    ELSE LET sn == ISqrt(a[1])
             sd == ISqrt(a[2])
         IN  IF sn * sn = a[1] /\ sd * sd = a[2] THEN Frac(sn, sd)
             ELSE Frac(ISqrt(a[1] * a[2]), a[2])

-----------------------------------------------------------------------------
(* glm::vec3 and glm::mat4.                                                *)

Vec(x, y, z) == <<x, y, z>>
ZeroVec == <<Zero, Zero, Zero>>
NaNVec == <<NaN, NaN, NaN>>
VAdd(a, b) == [k \in 1..3 |-> FAdd(a[k], b[k])]
VSub(a, b) == [k \in 1..3 |-> FSub(a[k], b[k])]
VScale(s, a) == [k \in 1..3 |-> FMul(s, a[k])]
VNeg(a) == [k \in 1..3 |-> FNeg(a[k])]
Dot(a, b) == FAdd(FAdd(FMul(a[1], b[1]), FMul(a[2], b[2])), FMul(a[3], b[3]))
VFinite(a) == \A k \in 1..3 : IsFinite(a[k])

\* the integer vector c * a and the common denominator c of a finite vector
CommonDen(a) ==
    LET l12 == (a[1][2] \div GCD(a[1][2], a[2][2])) * a[2][2]
    IN  (l12 \div GCD(l12, a[3][2])) * a[3][2]
Numerators(a) == [k \in 1..3 |-> a[k][1] * (CommonDen(a) \div a[k][2])]
GCD3(n) == GCD(GCD(Abs(n[1]), Abs(n[2])), Abs(n[3]))

\* glm::length: sqrt(dot(v, v)), taken on the primitive integer vector of
\* v's direction so that the squares stay small
Length(a) ==
    IF ~VFinite(a) THEN NaN
    ELSE LET n == Numerators(a)
             g == GCD3(n)
         IN  IF g = 0 THEN Zero
             ELSE LET m == [k \in 1..3 |-> n[k] \div g]
                  IN  FMul(Frac(g, CommonDen(a)),
                           FSqrt(<<m[1] * m[1] + m[2] * m[2] + m[3] * m[3], 1>>))

\* glm::normalize where the result is computed with: v / length(v)
normalize(a) == LET len == Length(a) IN [k \in 1..3 |-> FDiv(a[k], len)]

\* glm::normalize where the result is only stored (the normals): the unit
\* vector of a direction is named by the primitive integer vector of that
\* direction, since its components have no exact value in general
unitDirection(a) ==
    IF ~VFinite(a) THEN NaNVec
    ELSE LET n == Numerators(a)
             g == GCD3(n)
         IN  IF g = 0 THEN NaNVec ELSE [k \in 1..3 |-> <<n[k] \div g, 1>>]

\* a mat4 is its four rows; a vec4 is a vec3 and w
Row(row, v, w) ==
    FAdd(FAdd(FAdd(FMul(row[1], v[1]), FMul(row[2], v[2])), FMul(row[3], v[3])),
         FMul(row[4], w))

multiplyMV(m, v, w) == [k \in 1..3 |-> Row(m[k], v, w)]

getPointOnRay(ry, tt) ==
    VAdd(ry.origin, VScale(FSub(tt, <<1, 10000>>), normalize(ry.direction)))

-----------------------------------------------------------------------------
(* Geom: the placement of one primitive (sceneStructs.h and the scene       *)
(* loader are not part of this file).  A placement scales uniformly by s   *)
(* and then translates by tr; inverseTransform is its inverse and          *)
(* invTranspose the transpose of the inverse.                              *)

Placement(s, tr) ==
    LET u == FDiv(One, s)
        b == [k \in 1..3 |-> FNeg(FMul(u, tr[k]))]
    IN  [transform |-> << <<s, Zero, Zero, tr[1]>>, <<Zero, s, Zero, tr[2]>>,
                          <<Zero, Zero, s, tr[3]>>, <<Zero, Zero, Zero, One>> >>,
         inverseTransform |->
                       << <<u, Zero, Zero, b[1]>>, <<Zero, u, Zero, b[2]>>,
                          <<Zero, Zero, u, b[3]>>, <<Zero, Zero, Zero, One>> >>,
         invTranspose |->
                       << <<u, Zero, Zero, Zero>>, <<Zero, u, Zero, Zero>>,
                          <<Zero, Zero, u, Zero>>, <<b[1], b[2], b[3], One>> >>]

-----------------------------------------------------------------------------
(* The implicit fields and the marching root finder.                       *)

BIGSTEPSIZE == <<1, 10>>
SMALLSTEPSIZE == <<1, 50>>

\* lattice points per unit of object-space length: positions are multiples
\* of BIGSTEPSIZE
Unit == BIGSTEPSIZE[2]
\* the steps of the marcher, in units of SMALLSTEPSIZE
SmallTicks == FDiv(SMALLSTEPSIZE, SMALLSTEPSIZE)[1]
BigTicks == FDiv(BIGSTEPSIZE, SMALLSTEPSIZE)[1]
\* a field value v is held as the integer Scale * v
Scale == 2 * Unit * Unit * Unit * Unit
\* both fields are positive at every point with a coordinate beyond Far and
\* grow with it; coordinates are cut there to keep the products within the
\* range of 32-bit integers
Far == 8 * Unit
Clamp(c) == IF c > Far THEN Far ELSE IF c < -Far THEN -Far ELSE c

csg1SDF(pt) ==
    LET x == Clamp(pt[1])
        y == Clamp(pt[2])
        z == Clamp(pt[3])
        x2 == x * x
        y2 == y * y
        z2 == z * z
        x4 == x2 * x2
        y4 == y2 * y2
        z4 == z2 * z2
        u2 == Unit * Unit
    IN  2 * (x4 - 5 * u2 * x2 + y4 - 5 * u2 * y2 + z4 - 5 * u2 * z2)
          + (118 * Scale) \div 10

csg2SDF(pt) ==
    LET x == Clamp(pt[1])
        y == Clamp(pt[2])
        z == Clamp(pt[3])
        k == 5 * Unit
        ak2 == (95 * k * k) \div 100            \* a * k * k, a = 0.95
        x2 == x * x
        y2 == y * y
        z2 == z * z
        \* b = 0.5: Scale * b is one unit of the lattice's fourth power
    IN  2 * (x2 + y2 + z2 - ak2) * (x2 + y2 + z2 - ak2)
          - ((z - k) * (z - k) - 2 * x * x) * ((z + k) * (z + k) - 2 * y * y)

SDF(kd, pt) == IF kd = "csg1" THEN csg1SDF(pt) ELSE csg2SDF(pt)

\* faulty variant: the test on the magnitude of the field
CrossingAbs(d) == Abs(d) < Scale \div 1000

\* distance < 0.001
Crossing(d) == d < Scale \div 1000

CoarseIterations == 700
FineIterations == 10
\* faulty variants: an outer loop that runs once more, an inner loop cut short
CoarseContinuesOffByOne(n) == n <= CoarseIterations
FineContinuesShort(n) == n < 3
CoarseContinues(n) == n < CoarseIterations
FineContinues(n) == n < FineIterations

\* cam + ray * t
PointAt(c, d, tt) == [k \in 1..3 |-> c[k] + d[k] * tt]

\* faulty variant: the hit returned without the last step back
HitResultNoStepBack(tt, st) == tt

\* the value the marcher returns at its hit: t -= step; return t
HitResult(tt, st) == tt - st

\* faulty variant: the step left at BIGSTEPSIZE
FineStepSizeStale == BigTicks

\* step = SMALLSTEPSIZE
FineStepSize == SmallTicks

\* one iteration of the outer loop of csgNRaytrace
CoarseStep ==
    /\ pc = "coarse"
    /\ CoarseContinues(i)
    /\ LET pp == PointAt(cam, ray, t)
           d == SDF(kind, pp)
       IN  /\ p' = pp
           /\ distance' = d
           /\ nCoarse' = nCoarse + 1
           /\ IF Crossing(d)
              THEN /\ t' = t - step
                   /\ step' = FineStepSize
                   /\ j' = 0
                   /\ pc' = "fine"
                   /\ i' = i
              ELSE /\ t' = t + step
                   /\ i' = i + 1
                   /\ UNCHANGED <<step, j, pc>>
    /\ UNCHANGED <<kind, geom, r, in0, intersectionPoint, normal, outside, ret,
                   q, tmin, tmax, tmin_n, tmax_n, xyz, cam, ray, tRet, exit,
                   nFine>>

\* the outer loop ran out: return 0
CoarseExhausted ==
    /\ pc = "coarse"
    /\ ~CoarseContinues(i)
    /\ tRet' = 0
    /\ exit' = "coarseMiss"
    /\ pc' = "marched"
    /\ UNCHANGED <<kind, geom, r, in0, intersectionPoint, normal, outside, ret,
                   q, tmin, tmax, tmin_n, tmax_n, xyz, cam, ray, t, step, i, j,
                   p, distance, nCoarse, nFine>>

\* one iteration of the inner loop, or its end (return 0).  On the lattice
\* the sixth sample of the inner loop is the coarse sample that started it,
\* so the loop never runs out here; in floats the two differ by rounding.
FineStep ==
    /\ pc = "fine"
    /\ IF FineContinues(j)
       THEN LET pp == PointAt(cam, ray, t)
                d == SDF(kind, pp)
            IN  /\ p' = pp
                /\ distance' = d
                /\ nFine' = nFine + 1
                /\ IF Crossing(d)
                   THEN /\ t' = HitResult(t, step)
                        /\ tRet' = HitResult(t, step)
                        /\ exit' = "hit"
                        /\ pc' = "marched"
                        /\ j' = j
                   ELSE /\ t' = t + step
                        /\ j' = j + 1
                        /\ UNCHANGED <<tRet, exit, pc>>
       ELSE /\ tRet' = 0
            /\ exit' = "fineMiss"
            /\ pc' = "marched"
            /\ UNCHANGED <<t, j, p, distance, nFine>>
    /\ UNCHANGED <<kind, geom, r, in0, intersectionPoint, normal, outside, ret,
                   q, tmin, tmax, tmin_n, tmax_n, xyz, cam, ray, step, i,
                   nCoarse>>

\* the central-difference offset of the normal estimate, in lattice points
\* (utilities.h, which defines it, is not part of this file)
EPSILON == 1

getCsgNormal(kd, pt) ==
    LET e(k) == [m \in 1..3 |-> IF m = k THEN EPSILON ELSE 0]
        plus(k) == [m \in 1..3 |-> pt[m] + e(k)[m]]
        minus(k) == [m \in 1..3 |-> pt[m] - e(k)[m]]
    IN  unitDirection([k \in 1..3 |-> <<SDF(kd, plus(k)) - SDF(kd, minus(k)), 1>>])

\* faulty variant: the flip taken on the opposite value of the flag
FlipIfOutside(n, out) == IF out THEN VNeg(n) ELSE n

\* the normal as csgNIntersectionTest leaves it
FlipUnlessOutside(n, out) == IF ~out THEN VNeg(n) ELSE n

\* a float vector that lies on the lattice, as lattice coordinates
ToLattice(v) == [k \in 1..3 |-> (v[k][1] * Unit) \div v[k][2]]
\* the lattice displacement of direction v per SMALLSTEPSIZE of t
ToLatticeRate(v) == ToLattice(VScale(SMALLSTEPSIZE, v))
\* the marcher's t as a float
TicksToFloat(n) == FMul(<<n, 1>>, SMALLSTEPSIZE)

CsgGeoms == {Placement(<<1, 5>>, ZeroVec), Placement(<<1, 10>>, ZeroVec)}
CsgOrigins ==
    {Vec(Frac(k, 10), y, <<4, 25>>) : k \in -MaxCam..MaxCam, y \in {Zero, <<8, 25>>}}
CsgDirections == {Vec(Zero, One, Zero), Vec(Zero, <<-1, 1>>, Zero)}

\* csgNIntersectionTest up to its call of csgNRaytrace, and the first lines
\* of csgNRaytrace
CallCsg(kd) ==
    /\ pc = "idle"
    /\ \E g \in CsgGeoms, o \in CsgOrigins, d \in CsgDirections :
         LET pt == multiplyMV(g.inverseTransform, o, One)
             dir == multiplyMV(g.inverseTransform, d, Zero)
         IN  /\ geom' = g
             /\ r' = [origin |-> o, direction |-> d]
             /\ q' = [origin |-> pt, direction |-> dir]
             /\ cam' = ToLattice(pt)
             /\ ray' = ToLatticeRate(dir)
    /\ kind' = kd
    /\ t' = 0
    /\ step' = BigTicks
    /\ i' = 0
    /\ pc' = "coarse"
    /\ UNCHANGED <<in0, intersectionPoint, normal, outside, ret, tmin, tmax,
                   tmin_n, tmax_n, xyz, j, p, distance, tRet, exit, nCoarse,
                   nFine>>

CallCsg1 == CallCsg("csg1")
CallCsg2 == CallCsg("csg2")

\* csgNIntersectionTest after csgNRaytrace has returned
CsgFinish ==
    /\ pc = "marched"
    /\ LET objPt == VAdd(q.origin, VScale(TicksToFloat(tRet), q.direction))
           grad == getCsgNormal(kind, PointAt(cam, ray, tRet))
       IN  /\ intersectionPoint' = multiplyMV(geom.transform, objPt, One)
           /\ normal' = FlipUnlessOutside(
                            unitDirection(multiplyMV(geom.invTranspose, grad, Zero)),
                            outside)
    /\ ret' = TicksToFloat(tRet)
    /\ pc' = "done"
    /\ UNCHANGED <<kind, geom, r, in0, outside, q, tmin, tmax, tmin_n, tmax_n,
                   xyz, cam, ray, t, step, i, j, p, distance, tRet, exit,
                   nCoarse, nFine>>

-----------------------------------------------------------------------------
(* The analytic intersectors.                                              *)

MinusOne == <<-1, 1>>
Half == <<1, 2>>
FLT_BIG == <<1, -1>>                  \* 1e38f

SolidGeoms == {Placement(One, ZeroVec), Placement(<<2, 1>>, Vec(One, Zero, Zero))}
SolidOrigins ==
    {Vec(Frac(k, 2), y, z) : k \in -MaxCoord..MaxCoord,
                             y \in {Zero, <<3, 10>>, <<3, 5>>},
                             z \in {<<-2, 1>>, <<-2, 5>>, Zero}}
SolidDirections ==
    {Vec(One, Zero, Zero), Vec(MinusOne, Zero, Zero), Vec(Zero, One, Zero),
     Vec(Zero, MinusOne, Zero), Vec(Zero, Zero, One), Vec(Zero, Zero, MinusOne),
     Vec(<<3, 5>>, <<4, 5>>, Zero), Vec(Zero, <<-3, 5>>, <<4, 5>>),
     Vec(<<-4, 5>>, Zero, <<3, 5>>)}

\* the ray in object space, its direction renormalised
ObjectRay(g, o, d) ==
    [origin |-> multiplyMV(g.inverseTransform, o, One),
     direction |-> normalize(multiplyMV(g.inverseTransform, d, Zero))]

\* boxIntersectionTest up to its loop
CallBox ==
    /\ pc = "idle"
    /\ \E g \in SolidGeoms, o \in SolidOrigins, d \in SolidDirections :
         /\ geom' = g
         /\ r' = [origin |-> o, direction |-> d]
         /\ q' = ObjectRay(g, o, d)
    /\ kind' = "box"
    /\ tmin' = FNeg(FLT_BIG)
    /\ tmax' = FLT_BIG
    /\ tmin_n' = ZeroVec
    /\ tmax_n' = ZeroVec
    /\ xyz' = 0
    /\ pc' = "slab"
    /\ UNCHANGED <<in0, intersectionPoint, normal, outside, ret, cam, ray, t,
                   step, i, j, p, distance, tRet, exit, nCoarse, nFine>>

\* the two plane crossings of axis xyz (0, 1, 2)
SlabT1(qq, ax) == FDiv(FSub(FNeg(Half), qq.origin[ax + 1]), qq.direction[ax + 1])
SlabT2(qq, ax) == FDiv(FSub(Half, qq.origin[ax + 1]), qq.direction[ax + 1])
SlabTa(qq, ax) == FMin(SlabT1(qq, ax), SlabT2(qq, ax))
SlabTb(qq, ax) == FMax(SlabT1(qq, ax), SlabT2(qq, ax))
\* glm::vec3 n; n[xyz] = t2 < t1 ? +1 : -1 (the other components are the
\* zeros of glm's default constructor)
SlabNormal(qq, ax) ==
    [k \in 1..3 |-> IF k = ax + 1
                    THEN (IF Lt(SlabT2(qq, ax), SlabT1(qq, ax)) THEN One ELSE MinusOne)
                    ELSE Zero]

\* ta > 0 && ta > tmin
EntryUpdates(ta, tmn) == Gt(ta, Zero) /\ Gt(ta, tmn)
\* tb < tmax
ExitUpdates(tb, tmx) == Lt(tb, tmx)
\* faulty variant: the hit test without tmax > 0
BoxHitTestNoSign(tmn, tmx) == Ge(tmx, tmn)

\* tmax >= tmin && tmax > 0
BoxHitTest(tmn, tmx) == Ge(tmx, tmn) /\ Gt(tmx, Zero)
\* tmin <= 0
BoxFromInside(tmn) == Le(tmn, Zero)

\* faulty variant: outside assigned before the hit test
BoxOutsideEager(tmn, tmx, out) == ~BoxFromInside(tmn)

\* outside as lines 78-84 leave it: assigned only inside the hit branch
BoxOutside(tmn, tmx, out) ==
    IF BoxHitTest(tmn, tmx) THEN ~BoxFromInside(tmn) ELSE out

\* one iteration of the loop over the axes
BoxSlab ==
    /\ pc = "slab"
    /\ xyz < 3
    /\ LET ta == SlabTa(q, xyz)
           tb == SlabTb(q, xyz)
           n == SlabNormal(q, xyz)
       IN  /\ IF EntryUpdates(ta, tmin)
              THEN tmin' = ta /\ tmin_n' = n
              ELSE UNCHANGED <<tmin, tmin_n>>
           /\ IF ExitUpdates(tb, tmax)
              THEN tmax' = tb /\ tmax_n' = n
              ELSE UNCHANGED <<tmax, tmax_n>>
    /\ xyz' = xyz + 1
    /\ UNCHANGED <<pc, kind, geom, r, in0, intersectionPoint, normal, outside,
                   ret, q, cam, ray, t, step, i, j, p, distance, tRet, exit,
                   nCoarse, nFine>>

\* the hit branch after the loop
BoxHit ==
    /\ pc = "slab"
    /\ xyz = 3
    /\ BoxHitTest(tmin, tmax)
    /\ outside' = BoxOutside(tmin, tmax, outside)
    /\ tmin' = IF BoxFromInside(tmin) THEN tmax ELSE tmin
    /\ tmin_n' = IF BoxFromInside(tmin) THEN tmax_n ELSE tmin_n
    /\ intersectionPoint' = multiplyMV(geom.transform, getPointOnRay(q, tmin'), One)
    /\ normal' = unitDirection(multiplyMV(geom.transform, tmin_n', Zero))
    /\ ret' = Length(VSub(r.origin, intersectionPoint'))
    /\ pc' = "done"
    /\ UNCHANGED <<kind, geom, r, in0, q, tmax, tmax_n, xyz, cam, ray, t, step,
                   i, j, p, distance, tRet, exit, nCoarse, nFine>>

\* return -1
BoxMiss ==
    /\ pc = "slab"
    /\ xyz = 3
    /\ ~BoxHitTest(tmin, tmax)
    /\ outside' = BoxOutside(tmin, tmax, outside)
    /\ ret' = MinusOne
    /\ pc' = "done"
    /\ UNCHANGED <<kind, geom, r, in0, intersectionPoint, normal, q,
                   tmin, tmax, tmin_n, tmax_n, xyz, cam, ray, t, step, i, j, p,
                   distance, tRet, exit, nCoarse, nFine>>

\* sphereIntersectionTest up to the radicand
CallSphere ==
    /\ pc = "idle"
    /\ \E g \in SolidGeoms, o \in SolidOrigins, d \in SolidDirections :
         /\ geom' = g
         /\ r' = [origin |-> o, direction |-> d]
         /\ q' = ObjectRay(g, o, d)
    /\ kind' = "sphere"
    /\ pc' = "sphere"
    /\ UNCHANGED <<in0, intersectionPoint, normal, outside, ret, tmin, tmax,
                   tmin_n, tmax_n, xyz, cam, ray, t, step, i, j, p, distance,
                   tRet, exit, nCoarse, nFine>>

radius == Half
vDotDirection(rt) == Dot(rt.origin, rt.direction)
radicand(rt) ==
    FSub(FMul(vDotDirection(rt), vDotDirection(rt)),
         FSub(Dot(rt.origin, rt.origin), FMul(radius, radius)))
SphereT1(rt) == FAdd(FNeg(vDotDirection(rt)), FSqrt(radicand(rt)))
SphereT2(rt) == FSub(FNeg(vDotDirection(rt)), FSqrt(radicand(rt)))

\* t1 < 0 && t2 < 0
SphereBehind(t1, t2) == Lt(t1, Zero) /\ Lt(t2, Zero)
\* faulty variant: one positive root taken for an origin outside
SphereFromOutsideEither(t1, t2) == Gt(t1, Zero) \/ Gt(t2, Zero)

\* t1 > 0 && t2 > 0
SphereFromOutside(t1, t2) == Gt(t1, Zero) /\ Gt(t2, Zero)

\* radicand < 0: return -1
SphereNoRoot ==
    /\ pc = "sphere"
    /\ Lt(radicand(q), Zero)
    /\ ret' = MinusOne
    /\ pc' = "done"
    /\ UNCHANGED <<kind, geom, r, in0, intersectionPoint, normal, outside, q,
                   tmin, tmax, tmin_n, tmax_n, xyz, cam, ray, t, step, i, j, p,
                   distance, tRet, exit, nCoarse, nFine>>

\* both roots negative: return -1
SphereMiss ==
    /\ pc = "sphere"
    /\ ~Lt(radicand(q), Zero)
    /\ SphereBehind(SphereT1(q), SphereT2(q))
    /\ ret' = MinusOne
    /\ pc' = "done"
    /\ UNCHANGED <<kind, geom, r, in0, intersectionPoint, normal, outside, q,
                   tmin, tmax, tmin_n, tmax_n, xyz, cam, ray, t, step, i, j, p,
                   distance, tRet, exit, nCoarse, nFine>>

\* the two hit branches and the rest of the function
SphereHit ==
    /\ pc = "sphere"
    /\ ~Lt(radicand(q), Zero)
    /\ ~SphereBehind(SphereT1(q), SphereT2(q))
    /\ LET t1 == SphereT1(q)
           t2 == SphereT2(q)
           out == SphereFromOutside(t1, t2)
           tt == IF out THEN FMin(t1, t2) ELSE FMax(t1, t2)
           objspaceIntersection == getPointOnRay(q, tt)
           n == unitDirection(multiplyMV(geom.invTranspose, objspaceIntersection, Zero))
       IN  /\ outside' = out
           /\ intersectionPoint' = multiplyMV(geom.transform, objspaceIntersection, One)
           /\ normal' = IF ~out THEN VNeg(n) ELSE n
    /\ ret' = Length(VSub(r.origin, intersectionPoint'))
    /\ pc' = "done"
    /\ UNCHANGED <<kind, geom, r, in0, q, tmin, tmax, tmin_n, tmax_n, xyz, cam,
                   ray, t, step, i, j, p, distance, tRet, exit, nCoarse, nFine>>

-----------------------------------------------------------------------------
\* what the caller holds in its output variables before the call
StalePoint == Vec(<<9, 1>>, <<9, 1>>, <<9, 1>>)
StaleNormal == ZeroVec

Init ==
    /\ pc = "idle"
    /\ kind = "none"
    /\ geom = Placement(One, ZeroVec)
    /\ r = [origin |-> ZeroVec, direction |-> ZeroVec]
    /\ outside \in BOOLEAN
    /\ intersectionPoint = StalePoint
    /\ normal = StaleNormal
    /\ in0 = [intersectionPoint |-> intersectionPoint, normal |-> normal,
              outside |-> outside]
    /\ ret = Zero
    /\ q = [origin |-> ZeroVec, direction |-> ZeroVec]
    /\ tmin = Zero
    /\ tmax = Zero
    /\ tmin_n = ZeroVec
    /\ tmax_n = ZeroVec
    /\ xyz = 0
    /\ cam = <<0, 0, 0>>
    /\ ray = <<0, 0, 0>>
    /\ t = 0
    /\ step = 0
    /\ i = 0
    /\ j = 0
    /\ p = <<0, 0, 0>>
    /\ distance = 0
    /\ tRet = 0
    /\ exit = "none"
    /\ nCoarse = 0
    /\ nFine = 0

Next ==
    \/ CallBox
    \/ BoxSlab
    \/ BoxHit
    \/ BoxMiss
    \/ CallSphere
    \/ SphereNoRoot
    \/ SphereMiss
    \/ SphereHit
    \/ CallCsg1
    \/ CallCsg2
    \/ CoarseStep
    \/ CoarseExhausted
    \/ FineStep
    \/ CsgFinish

Spec == Init /\ [][Next]_vars

-----------------------------------------------------------------------------
(* Properties.                                                             *)

Marching == kind \in {"csg1", "csg2"}
Solid == kind \in {"box", "sphere"}
Below(d) == d < Scale \div 1000                    \* field < 0.001
NearZero(d) == Abs(d) < Scale \div 1000            \* |field| < 0.001
FieldAt(tt) == SDF(kind, PointAt(cam, ray, tt))
\* the parameter of fine sample m of the refinement started at coarse step i
FineSample(m) == BigTicks * i - BigTicks + SmallTicks * m

\* C1 as stated: coarse step i samples t = 0.1 * i; the marcher steps back by
\* 0.1 and enters fine refinement iff |field| < 0.001 there, and otherwise
\* advances by 0.1 and stays in coarse search.
C1_AsStated ==
    Marching =>
      /\ pc = "coarse" =>
           /\ t = BigTicks * i
           /\ i > 0 => /\ p = PointAt(cam, ray, t - BigTicks)
                       /\ distance = SDF(kind, p)
                       /\ ~NearZero(distance)
      /\ (pc = "fine" /\ j = 0) =>
           /\ t = BigTicks * i - BigTicks
           /\ p = PointAt(cam, ray, BigTicks * i)
           /\ distance = SDF(kind, p)
           /\ NearZero(distance)

\* C1 amended: the test is field < 0.001 on the signed field: a sample where
\* the field is strongly negative enters fine refinement too; only samples
\* with field >= 0.001 advance.
C1_SignedTest ==
    Marching =>
      /\ pc = "coarse" =>
           /\ t = BigTicks * i
           /\ i > 0 => /\ p = PointAt(cam, ray, t - BigTicks)
                       /\ distance = SDF(kind, p)
                       /\ ~Below(distance)
      /\ (pc = "fine" /\ j = 0) =>
           /\ t = BigTicks * i - BigTicks
           /\ p = PointAt(cam, ray, BigTicks * i)
           /\ distance = SDF(kind, p)
           /\ Below(distance)

\* a coarse sample after the first entered fine refinement on a field value
\* far below -0.001
C1_Witness ==
    /\ Marching
    /\ pc = "fine"
    /\ j = 0
    /\ i > 0
    /\ distance < -(Scale \div 1000)

\* C2 as stated: fine refinement samples t_c - 0.1 + 0.02 * j, j = 0..9, in
\* order; at the first j with |field| < 0.001 it returns that t minus 0.02;
\* with none it returns 0; the coarse search is never resumed.
C2_AsStated ==
    Marching =>
      /\ nFine <= 10
      /\ pc = "coarse" => nFine = 0
      /\ pc = "fine" =>
           /\ j \in 0..10
           /\ nFine = j
           /\ t = FineSample(j)
           /\ \A m \in 0..(j - 1) : ~NearZero(FieldAt(FineSample(m)))
      /\ exit = "hit" =>
           /\ j \in 0..9
           /\ NearZero(FieldAt(FineSample(j)))
           /\ \A m \in 0..(j - 1) : ~NearZero(FieldAt(FineSample(m)))
           /\ tRet = FineSample(j) - SmallTicks
      /\ exit = "fineMiss" =>
           /\ tRet = 0
           /\ \A m \in 0..9 : ~NearZero(FieldAt(FineSample(m)))

\* C2 amended: the same with the test field < 0.001 on the signed field.
C2_SignedTest ==
    Marching =>
      /\ nFine <= 10
      /\ pc = "coarse" => nFine = 0
      /\ pc = "fine" =>
           /\ j \in 0..10
           /\ nFine = j
           /\ t = FineSample(j)
           /\ \A m \in 0..(j - 1) : ~Below(FieldAt(FineSample(m)))
      /\ exit = "hit" =>
           /\ j \in 0..9
           /\ Below(FieldAt(FineSample(j)))
           /\ \A m \in 0..(j - 1) : ~Below(FieldAt(FineSample(m)))
           /\ tRet = FineSample(j) - SmallTicks
      /\ exit = "fineMiss" =>
           /\ tRet = 0
           /\ \A m \in 0..9 : ~Below(FieldAt(FineSample(m)))

\* a refinement that returned at a fine sample after its first
C2_Witness ==
    /\ Marching
    /\ exit = "hit"
    /\ i > 0
    /\ j > 1

\* C3: a call of the marcher makes at most 700 coarse and at most 10 fine
\* field evaluations, can always take its next step until it returns, and
\* returns 0 from the miss exit when no coarse sample detects a crossing.
C3_Bounded ==
    Marching =>
      /\ nCoarse <= 700
      /\ nFine <= 10
      /\ pc \in {"coarse", "fine"} => ENABLED (CoarseStep \/ CoarseExhausted \/ FineStep)
      /\ (pc \in {"marched", "done"} /\ nFine = 0) =>
           /\ exit = "coarseMiss"
           /\ nCoarse = 700
           /\ tRet = 0
      /\ exit = "coarseMiss" =>
           \A m \in 0..699 : ~Below(FieldAt(BigTicks * m))

\* the marcher returned after all 700 coarse evaluations
C3_Witness ==
    /\ Marching
    /\ pc = "marched"
    /\ exit = "coarseMiss"
    /\ nCoarse = 700

\* the first lattice sample of the ray, up to t < 70, where the field is
\* below the threshold (-1: none); the field crosses it in the SMALLSTEPSIZE
\* before that sample
LastTick == BigTicks * CoarseIterations - 1
FirstBelow ==
    LET S == {k \in 0..LastTick : Below(FieldAt(k))}
    IN  IF S = {} THEN -1 ELSE CHOOSE k \in S : \A m \in S : k <= m
\* the first coarse sample at or after sample k
NextCoarse(k) == BigTicks * ((k + BigTicks - 1) \div BigTicks)

\* C4 as stated: from an origin above the threshold, if the ray first
\* crosses the level set at t* < 70, the marcher returns t with
\* |t - t*| <= 0.02.
C4_AsStated ==
    (pc = "marched" /\ kind = "csg1" /\ ~Below(FieldAt(0)) /\ FirstBelow # -1)
      => Abs(tRet - FirstBelow) <= 1

\* C4 amended: the bound holds when the field stays below the threshold from
\* t* up to the next coarse sample and that sample is one of the 700; the
\* marcher then returns the first fine sample at or after t*, minus 0.02.
C4_WhenDetected ==
    (/\ pc = "marched"
     /\ Marching
     /\ ~Below(FieldAt(0))
     /\ FirstBelow # -1
     /\ NextCoarse(FirstBelow) <= BigTicks * (CoarseIterations - 1)
     /\ \A m \in FirstBelow..NextCoarse(FirstBelow) : Below(FieldAt(m)))
      => /\ exit = "hit"
         /\ tRet = FirstBelow - 1

\* Field A: a crossing past the first coarse step, found and refined
C4_Witness ==
    /\ pc = "marched"
    /\ kind = "csg1"
    /\ exit = "hit"
    /\ ~Below(FieldAt(0))
    /\ i > 1
    /\ tRet = FirstBelow - 1

\* the ray origin in object space lies strictly outside the primitive
StrictlyOutside ==
    IF kind = "box" THEN \E k \in 1..3 : Gt(q.origin[k], Half) \/ Lt(q.origin[k], FNeg(Half))
    ELSE Gt(Dot(q.origin, q.origin), FMul(Half, Half))

\* C5: when the box or the sphere intersector reports a hit, outside is true
\* iff the ray origin in object space lies strictly outside the primitive.
C5_OutsideCorrect ==
    (pc = "done" /\ Solid /\ ret # <<-1, 1>>) => (outside <=> StrictlyOutside)

\* a box hit from an origin inside the cube, the caller's flag being true
C5_Witness ==
    /\ pc = "done"
    /\ kind = "box"
    /\ ret # <<-1, 1>>
    /\ in0.outside
    /\ ~outside

\* the slab interval as the claim describes it: the largest positive entry
\* parameter (or -1e38), the smallest exit parameter (or 1e38)
SlabEntry ==
    LET S == {SlabTa(q, a) : a \in {b \in 0..2 : Gt(SlabTa(q, b), Zero)}}
    IN  IF S = {} THEN FNeg(FLT_BIG) ELSE CHOOSE x \in S : \A y \in S : Le(y, x)
SlabExit ==
    LET S == {SlabTb(q, a) : a \in {b \in 0..2 : Lt(SlabTb(q, b), FLT_BIG)}}
    IN  IF S = {} THEN FLT_BIG ELSE CHOOSE x \in S : \A y \in S : Le(x, y)

\* C6: the box intersector returns -1 iff tmax < tmin or tmax <= 0 after the
\* slab loop; otherwise it returns a distance >= 0.
C6_MissIff ==
    (pc = "done" /\ kind = "box") =>
      /\ ret = <<-1, 1>> <=> (Lt(SlabExit, SlabEntry) \/ Le(SlabExit, Zero))
      /\ ret # <<-1, 1>> => Ge(ret, Zero)
      /\ tmax = SlabExit

\* a box miss whose slab interval is empty although the box is ahead
C6_Witness ==
    /\ pc = "done"
    /\ kind = "box"
    /\ ret = <<-1, 1>>
    /\ Gt(tmax, Zero)
    /\ Lt(tmax, tmin)

\* the normal the wrapper computes before the flip
CsgNormal ==
    unitDirection(multiplyMV(geom.invTranspose,
                             getCsgNormal(kind, PointAt(cam, ray, tRet)), Zero))

\* C7: an implicit-surface call never assigns outside, and the returned
\* normal is the computed one, negated exactly when the caller's flag is false.
C7_OutsideUntouched ==
    Marching =>
      /\ outside = in0.outside
      /\ pc = "done" =>
           normal = IF in0.outside THEN CsgNormal ELSE VNeg(CsgNormal)

\* an implicit-surface hit returned to a caller that passed outside = false
C7_Witness ==
    /\ Marching
    /\ pc = "done"
    /\ exit = "hit"
    /\ ~in0.outside
    /\ normal # NaNVec
    /\ normal = VNeg(CsgNormal)

\* C9: the box and sphere intersectors write their output parameters only on
\* a reported hit: until then, and after returning -1, all three hold what
\* the caller passed in.
C9_MissLeavesOutputs ==
    (Solid /\ (pc # "done" \/ ret = <<-1, 1>>)) =>
      /\ intersectionPoint = in0.intersectionPoint
      /\ normal = in0.normal
      /\ outside = in0.outside

\* a box miss although the slab loop had found an entry parameter, the
\* caller's flag being false
C9_Witness ==
    /\ pc = "done"
    /\ kind = "box"
    /\ ret = <<-1, 1>>
    /\ ~in0.outside
    /\ Gt(tmin, Zero)

\* C10: the marcher returns a negative parameter, between -0.12 and -0.02,
\* exactly when the test succeeds at the ray origin; when the first
\* successful coarse sample is at t >= 0.1 the result lies in 0..69.88; it is
\* 0 on a miss and on a hit whose first successful fine sample is at 0.02.
C10_ResultRange ==
    (Marching /\ pc = "done") =>
      /\ Lt(ret, Zero) <=> Below(FieldAt(0))
      /\ Below(FieldAt(0)) =>
           /\ exit = "hit"
           /\ i = 0
           /\ Ge(ret, <<-3, 25>>)
           /\ Le(ret, <<-1, 50>>)
      /\ (exit = "hit" /\ i >= 1) =>
           /\ Ge(ret, Zero)
           /\ Le(ret, <<1747, 25>>)
      /\ exit # "hit" => ret = Zero
      /\ (exit = "hit" /\ FineSample(j) = SmallTicks) => ret = Zero

\* a hit whose result is 0: the first successful fine sample is at t = 0.02
C10_Witness ==
    /\ Marching
    /\ pc = "done"
    /\ exit = "hit"
    /\ i = 1
    /\ ret = Zero

====
